---- MODULE Spec2Model ----
(***************************************************************************)
(* Model of analysis/data_structures.py:                                   *)
(*   MultiParameterConfiguration  (constructor check, size, per-index      *)
(*                                 get_aggregate_params)                   *)
(*   UtilityAnalysisOptions       (n_configurations)                       *)
(*   get_aggregate_params         (module-level generator)                 *)
(*   get_partition_selection_strategy                                      *)
(*                                                                         *)
(* Python values are modelled as follows.                                  *)
(*  - An attribute that is None or a sequence is a record                  *)
(*    [none, seq]; Python truthiness of it is Truthy.                      *)
(*  - An element of min/max_sum_per_partition is a scalar or a row         *)
(*    (sequence of scalars): a record [isSeq, v, row].                     *)
(*  - AggregateParams objects live in a heap (a sequence indexed by object *)
(*    identity), so aliasing and copy.copy are distinguishable.            *)
(*  - Python indexes are 0-based; sequence positions here are index + 1.   *)
(***************************************************************************)
EXTENDS Integers, Sequences, FiniteSets, TLC

\* Longest attribute sequence the caller passes.
MaxLen == 2
\* Largest number of columns in one row of min/max_sum_per_partition.
MaxCols == 2

----------------------------------------------------------------------------
(* Python values *)

NoneVal == [none |-> TRUE, seq |-> <<>>]
Some(s) == [none |-> FALSE, seq |-> s]
\* bool(value) for a value that is None or a sequence.
Truthy(x) == ~x.none /\ Len(x.seq) > 0

Scalar(x) == [isSeq |-> FALSE, v |-> x, row |-> <<>>]
Row(r) == [isSeq |-> TRUE, v |-> 0, row |-> r]

\* Declaration order of the dataclass fields (order of dataclasses.asdict).
FieldOrder ==
    << "max_partitions_contributed", "max_contributions_per_partition",
       "min_sum_per_partition", "max_sum_per_partition",
       "noise_kind", "partition_selection_strategy" >>

\* The four attributes whose elements are plain values.
PlainFields ==
    << "max_partitions_contributed", "max_contributions_per_partition",
       "noise_kind", "partition_selection_strategy" >>

----------------------------------------------------------------------------
(* Inputs.  Each attribute is None, empty, or a sequence of 1..MaxLen       *)
(* elements of its declared type; min/max_sum_per_partition are sequences  *)
(* of scalars or sequences of rows of 1..MaxCols columns (rows may differ  *)
(* in length), never a mix of scalars and rows.  Element values are tagged *)
(* by attribute and position, so that any two distinct positions of any    *)
(* two attributes hold distinct values.                                    *)

PlainArgs(base) ==
    {NoneVal} \cup { Some([i \in 1..n |-> base + i]) : n \in 0..MaxLen }

ScalarSeqs(base) ==
    { Some([i \in 1..n |-> Scalar(base + 10 * i)]) : n \in 1..MaxLen }

RowSeqs(base) ==
    UNION { { Some([i \in 1..n |-> Row([c \in 1..cols[i] |-> base + 10 * i + c])])
                : cols \in [1..n -> 1..MaxCols] }
            : n \in 1..MaxLen }

\* Union[Sequence[float], Sequence[Sequence[float]]], None or empty.
SumArgs(base) ==
    {NoneVal, Some(<<>>)} \cup ScalarSeqs(base) \cup RowSeqs(base)

\* The blue-print AggregateParams the caller owns.
Blueprints ==
    { [max_partitions_contributed |-> 1,
       max_contributions_per_partition |-> 2,
       min_sum_per_partition |-> Scalar(3),
       max_sum_per_partition |-> Scalar(4),
       noise_kind |-> 5,
       partition_selection_strategy |-> 6] }

----------------------------------------------------------------------------
(* MultiParameterConfiguration.__post_init__ *)

RECURSIVE SeqMin(_)
SeqMin(s) ==
    IF Len(s) = 1 THEN s[1]
    ELSE LET m == SeqMin(Tail(s)) IN IF s[1] < m THEN s[1] ELSE m

\* SeqMax taking the first element for the largest.
SeqMaxFirst(s) == s[1]

RECURSIVE SeqMax(_)
SeqMax(s) ==
    IF Len(s) = 1 THEN s[1]
    ELSE LET m == SeqMax(Tail(s)) IN IF s[1] > m THEN s[1] ELSE m

\* sizes = [len(value) for value in attributes.values() if value]
Sizes(a) ==
    LET set == SelectSeq(FieldOrder, LAMBDA f : Truthy(a[f]))
    IN  [k \in 1..Len(set) |-> Len(a[set[k]].seq)]

\* all([isinstance(b, Sequence) for b in a])
all_elements_are_lists(a) == \A k \in 1..Len(a) : a[k].isSeq

\* common_value_len without the comparison of the smallest and largest length.
common_value_len_min(a) ==
    SeqMin([k \in 1..Len(a) |-> Len(a[k].row)])

\* Optional[int]: None is -1.  Called on a non-empty list only; on an empty
\* list min() raises, which PostInit handles before calling this.
common_value_len(a) ==
    LET sizes == [k \in 1..Len(a) |-> Len(a[k].row)]
    IN  IF SeqMin(sizes) = SeqMax(sizes) THEN SeqMin(sizes) ELSE -1

Raised(kind) == [err |-> kind, size |-> 0]
Constructed(n) == [err |-> "none", size |-> n]

\* The outcome of constructing MultiParameterConfiguration(**a): the error
\* raised, or "none" and the value stored in _size.
PostInit(a) ==
    LET sizes == Sizes(a)
        mn == a.min_sum_per_partition
        mx == a.max_sum_per_partition
    IN  IF sizes = <<>> THEN Raised("ValueError")
        ELSE IF SeqMin(sizes) # SeqMax(sizes) THEN Raised("ValueError")
        ELSE IF mn.none # mx.none THEN Raised("ValueError")
        ELSE IF Truthy(mn) /\ all_elements_are_lists(mn.seq)
                           /\ all_elements_are_lists(mx.seq)
             THEN IF mx.seq = <<>>
                  \* common_value_len([]) evaluates min([]): ValueError
                  THEN Raised("ValueError")
                  ELSE LET size1 == common_value_len(mn.seq)
                           size2 == common_value_len(mx.seq)
                       IN  IF size1 = -1 \/ size2 = -1 \/ size1 # size2
                           THEN Raised("ValueError")
                           ELSE Constructed(sizes[1])
             ELSE Constructed(sizes[1])

----------------------------------------------------------------------------
(* MultiParameterConfiguration.get_aggregate_params(params, index) *)

\* Zip with the two arguments exchanged in each pair.
ZipSwapped(a, b) ==
    LET n == IF Len(a) < Len(b) THEN Len(a) ELSE Len(b)
    IN  [c \in 1..n |-> <<Scalar(b[c]), Scalar(a[c])>>]

\* list(zip(a, b)) for two sequences
Zip(a, b) ==
    LET n == IF Len(a) < Len(b) THEN Len(a) ELSE Len(b)
    IN  [c \in 1..n |-> <<Scalar(a[c]), Scalar(b[c])>>]

\* self.<f>[index] raises IndexError
OutOfRange(self, f, index) == index + 1 > Len(self[f].seq)

\* Overridden reading element 0 of each sequence whatever the index.
OverriddenFirst(self, params, index) ==
    [f \in DOMAIN params |->
        IF \E k \in 1..Len(PlainFields) : PlainFields[k] = f /\ Truthy(self[f])
        THEN self[f].seq[1]
        ELSE params[f]]

\* params after the four conditional assignments of lines 105-115
Overridden(self, params, index) ==
    [f \in DOMAIN params |->
        IF \E k \in 1..Len(PlainFields) : PlainFields[k] = f /\ Truthy(self[f])
        THEN self[f].seq[index + 1]
        ELSE params[f]]

\* MinMaxSum without the else branch of line 124: no pair from params.
MinMaxSumNoFallback(self, params, index) ==
    LET mn == self.min_sum_per_partition
        mx == self.max_sum_per_partition
    IN  IF Truthy(mn)
        THEN LET min_sum == mn.seq[index + 1]
                 max_sum == mx.seq[index + 1]
             IN  IF min_sum.isSeq
                 THEN Zip(min_sum.row, max_sum.row)
                 ELSE << <<min_sum, max_sum>> >>
        ELSE <<>>

\* The list built by lines 116-126, given the (already overridden) params.
MinMaxSum(self, params, index) ==
    LET mn == self.min_sum_per_partition
        mx == self.max_sum_per_partition
    IN  IF Truthy(mn)
        THEN LET min_sum == mn.seq[index + 1]
                 max_sum == mx.seq[index + 1]
             IN  IF min_sum.isSeq
                 THEN Zip(min_sum.row, max_sum.row)
                 ELSE << <<min_sum, max_sum>> >>
        ELSE << <<params.min_sum_per_partition, params.max_sum_per_partition>> >>

\* The exception the call raises, "none" if it returns.
MaterializeError(self, index) ==
    LET mn == self.min_sum_per_partition
        mx == self.max_sum_per_partition
    IN  IF \E k \in 1..Len(PlainFields) :
              Truthy(self[PlainFields[k]]) /\ OutOfRange(self, PlainFields[k], index)
        THEN "IndexError"
        ELSE IF ~Truthy(mn) THEN "none"
        ELSE IF OutOfRange(self, "min_sum_per_partition", index) THEN "IndexError"
        ELSE IF mx.none THEN "TypeError"
        ELSE IF OutOfRange(self, "max_sum_per_partition", index) THEN "IndexError"
        ELSE IF mn.seq[index + 1].isSeq /\ ~mx.seq[index + 1].isSeq THEN "TypeError"
        ELSE "none"

\* Result of the call: the error, and when it returns the new params object
\* (a shallow copy of params with fields reassigned) and the bound pairs.
Mpc_get_aggregate_params(self, params, index) ==
    LET e == MaterializeError(self, index)
    IN  IF e # "none"
        THEN [err |-> e, params |-> params, min_max_sum |-> <<>>]
        ELSE LET p == Overridden(self, params, index)
             IN  [err |-> "none", params |-> p,
                  min_max_sum |-> MinMaxSum(self, p, index)]

----------------------------------------------------------------------------
(* UtilityAnalysisOptions and the two module-level functions *)

\* UtilityAnalysisOptions.n_configurations; opts is the options object:
\* multi is "multi_param_configuration is not None".
n_configurations(opts, self) == IF ~opts.multi THEN 1 ELSE self.size

\* get_partition_selection_strategy(options)
get_partition_selection_strategy(opts, self, params) ==
    IF opts.multi /\ ~self.partition_selection_strategy.none
    THEN self.partition_selection_strategy.seq
    ELSE LET n == IF opts.multi THEN self.size ELSE 1
         IN  [k \in 1..n |-> params.partition_selection_strategy]

----------------------------------------------------------------------------
(* State *)

VARIABLES
    args,       \* arguments of the MultiParameterConfiguration constructor call
    ctor,       \* "none": not called; "ok": object exists; else the error raised
    mpc,        \* the MultiParameterConfiguration object (attributes and size)
    opts,       \* the UtilityAnalysisOptions object, made = FALSE before it exists
    heap,       \* AggregateParams objects by identity; heap[1] is the blue-print
    call,       \* which function the caller is using on the options
    mat,        \* outcome of a direct MultiParameterConfiguration.get_aggregate_params
    gen,        \* the generator returned by get_aggregate_params(options)
    yielded,    \* what the generator has yielded: <<object identity, bound pairs>>
    strategies, \* value returned by get_partition_selection_strategy
    poked       \* identity of the yielded object the caller has written to, or 0

vars == <<args, ctor, mpc, opts, heap, call, mat, gen, yielded, strategies, poked>>

NoArgs == [f \in {FieldOrder[k] : k \in 1..Len(FieldOrder)} |-> NoneVal]
NoMpc == [max_partitions_contributed |-> NoneVal,
          max_contributions_per_partition |-> NoneVal,
          min_sum_per_partition |-> NoneVal,
          max_sum_per_partition |-> NoneVal,
          noise_kind |-> NoneVal,
          partition_selection_strategy |-> NoneVal,
          size |-> 0]
NoMat == [index |-> 0, err |-> "none", obj |-> 0, min_max_sum |-> <<>>]

\* Identity of options.aggregate_params.
BlueprintId == 1

Init ==
    /\ args = NoArgs
    /\ ctor = "none"
    /\ mpc = NoMpc
    /\ opts = [made |-> FALSE, multi |-> FALSE]
    /\ heap \in { <<b>> : b \in Blueprints }
    /\ call = "none"
    /\ mat = NoMat
    /\ gen = [state |-> "none", i |-> 0, err |-> "none"]
    /\ yielded = <<>>
    /\ strategies = <<>>
    /\ poked = 0

\* MultiParameterConfiguration(...): the dataclass __init__ stores the six
\* attributes and runs __post_init__; on an exception no object exists.
Construct ==
    /\ ctor = "none"
    /\ ~opts.made
    /\ \E a1 \in PlainArgs(10), a2 \in PlainArgs(20),
          a3 \in SumArgs(100), a4 \in SumArgs(200),
          a5 \in PlainArgs(30), a6 \in PlainArgs(40) :
         LET a == [max_partitions_contributed |-> a1,
                   max_contributions_per_partition |-> a2,
                   min_sum_per_partition |-> a3,
                   max_sum_per_partition |-> a4,
                   noise_kind |-> a5,
                   partition_selection_strategy |-> a6]
             r == PostInit(a)
         IN  /\ args' = a
             /\ ctor' = IF r.err = "none" THEN "ok" ELSE r.err
             /\ mpc' = IF r.err = "none"
                       THEN [f \in DOMAIN NoMpc |-> IF f = "size" THEN r.size ELSE a[f]]
                       ELSE NoMpc
    /\ UNCHANGED <<opts, heap, call, mat, gen, yielded, strategies, poked>>

\* UtilityAnalysisOptions(epsilon, delta, aggregate_params,
\* multi_param_configuration): with the constructed object, or with None.
MakeOptions ==
    /\ ~opts.made
    /\ ctor \in {"none", "ok"}
    /\ opts' = [made |-> TRUE, multi |-> (ctor = "ok")]
    /\ UNCHANGED <<args, ctor, mpc, heap, call, mat, gen, yielded, strategies, poked>>

\* A direct call multi_param_configuration.get_aggregate_params(
\* options.aggregate_params, index), in range or not.
Materialize ==
    /\ opts.made /\ opts.multi
    /\ call = "none"
    /\ \E index \in 0..MaxLen :
         LET r == Mpc_get_aggregate_params(mpc, heap[BlueprintId], index)
         IN  /\ heap' = IF r.err = "none" THEN Append(heap, r.params) ELSE heap
             /\ mat' = [index |-> index, err |-> r.err,
                        obj |-> IF r.err = "none" THEN Len(heap) + 1 ELSE 0,
                        min_max_sum |-> r.min_max_sum]
    /\ call' = "materialize"
    /\ UNCHANGED <<args, ctor, mpc, opts, gen, yielded, strategies, poked>>

\* get_aggregate_params(options): creates the generator; no code runs yet.
GetConfigurations ==
    /\ opts.made
    /\ call = "none"
    /\ call' = "iterate"
    /\ gen' = [state |-> "running", i |-> 0, err |-> "none"]
    /\ UNCHANGED <<args, ctor, mpc, opts, heap, mat, yielded, strategies, poked>>

\* next() on the generator, options without multi_param_configuration:
\* yields options.aggregate_params itself, then is exhausted.
NextPlain ==
    /\ call = "iterate" /\ gen.state = "running" /\ ~opts.multi
    /\ IF gen.i = 0
       THEN /\ yielded' = Append(yielded,
                    <<BlueprintId,
                      << <<heap[BlueprintId].min_sum_per_partition,
                           heap[BlueprintId].max_sum_per_partition>> >> >>)
            /\ gen' = [gen EXCEPT !.i = 1]
       ELSE /\ gen' = [gen EXCEPT !.state = "done"]
            /\ UNCHANGED yielded
    /\ UNCHANGED <<args, ctor, mpc, opts, heap, call, mat, strategies, poked>>

\* next() on the generator, options with a multi_param_configuration:
\* one iteration of "for i in range(size)"; an exception ends the generator.
NextMulti ==
    /\ call = "iterate" /\ gen.state = "running" /\ opts.multi
    /\ IF gen.i < mpc.size
       THEN LET r == Mpc_get_aggregate_params(mpc, heap[BlueprintId], gen.i)
            IN  IF r.err = "none"
                THEN /\ heap' = Append(heap, r.params)
                     /\ yielded' = Append(yielded, <<Len(heap) + 1, r.min_max_sum>>)
                     /\ gen' = [gen EXCEPT !.i = gen.i + 1]
                ELSE /\ gen' = [gen EXCEPT !.state = "raised", !.err = r.err]
                     /\ UNCHANGED <<heap, yielded>>
       ELSE /\ gen' = [gen EXCEPT !.state = "done"]
            /\ UNCHANGED <<heap, yielded>>
    /\ UNCHANGED <<args, ctor, mpc, opts, call, mat, strategies, poked>>

\* get_partition_selection_strategy(options)
GetStrategies ==
    /\ opts.made
    /\ call = "none"
    /\ call' = "strategies"
    /\ strategies' = get_partition_selection_strategy(opts, mpc, heap[BlueprintId])
    /\ UNCHANGED <<args, ctor, mpc, opts, heap, mat, gen, yielded, poked>>

\* The caller assigns an attribute of a configuration it was handed.
Poke ==
    /\ call = "iterate"
    /\ poked = 0
    /\ \E k \in 1..Len(yielded) :
         /\ poked' = yielded[k][1]
         /\ heap' = [heap EXCEPT ![yielded[k][1]].max_partitions_contributed = 999]
    /\ UNCHANGED <<args, ctor, mpc, opts, call, mat, gen, yielded, strategies>>

Next ==
    \/ Construct
    \/ MakeOptions
    \/ Materialize
    \/ GetConfigurations
    \/ NextPlain
    \/ NextMulti
    \/ GetStrategies
    \/ Poke

Spec == Init /\ [][Next]_vars

----------------------------------------------------------------------------
(* Properties *)

Blueprint == heap[BlueprintId]

\* A direct call with an in-range index has returned.
Materialized ==
    /\ call = "materialize"
    /\ mat.index < mpc.size
    /\ mat.err = "none"

IsPlain(f) == \E k \in 1..Len(PlainFields) : PlainFields[k] = f

\* C1 as stated: after materialize(i) returns for an in-range i, each of the
\* six fields with a (non-empty) supplied sequence equals the i-th element of
\* that sequence in the returned configuration, and every other field equals
\* the blue-print's value.
C1_AllSixOverridden ==
    Materialized =>
        \A k \in 1..Len(FieldOrder) :
            LET f == FieldOrder[k]
            IN  heap[mat.obj][f] = IF Truthy(mpc[f]) THEN mpc[f].seq[mat.index + 1]
                                   ELSE Blueprint[f]

\* C1 amended: after materialize(i) returns for an in-range i, each of the
\* four fields max_partitions_contributed, max_contributions_per_partition,
\* noise_kind and partition_selection_strategy with a non-empty supplied
\* sequence equals the i-th element of that sequence; every other field,
\* min/max_sum_per_partition included, equals the blue-print's value.
C1_PlainOverridden ==
    Materialized =>
        \A k \in 1..Len(FieldOrder) :
            LET f == FieldOrder[k]
            IN  heap[mat.obj][f] = IF IsPlain(f) /\ Truthy(mpc[f])
                                   THEN mpc[f].seq[mat.index + 1]
                                   ELSE Blueprint[f]

C1_Witness ==
    /\ Materialized
    /\ mat.index = 1
    /\ Truthy(mpc.max_partitions_contributed)
    /\ Truthy(mpc.partition_selection_strategy)
    /\ Truthy(mpc.min_sum_per_partition)
    /\ ~Truthy(mpc.noise_kind)
    /\ heap[mat.obj].max_partitions_contributed # Blueprint.max_partitions_contributed

\* C2 as stated: get_partition_selection_strategy returns a sequence of
\* length n_configurations: the supplied sequence when there is one,
\* otherwise the blue-print's strategy repeated.
C2_StrategiesLength ==
    call = "strategies" =>
        /\ Len(strategies) = n_configurations(opts, mpc)
        /\ strategies =
             IF opts.multi /\ ~mpc.partition_selection_strategy.none
             THEN mpc.partition_selection_strategy.seq
             ELSE [k \in 1..n_configurations(opts, mpc) |->
                      Blueprint.partition_selection_strategy]

\* C3 as stated: on a constructed object a direct call with an in-range
\* index never raises.
C3_ExpansionNeverFails ==
    (call = "materialize" /\ mat.index < mpc.size) => mat.err = "none"

\* C4 as stated: in a constructed object min_sum_per_partition and
\* max_sum_per_partition are both set (non-empty) or both unset (empty or
\* None); a construction with exactly one of them set fails.
C4_BothOrNeither ==
    ctor = "ok" =>
        (Truthy(args.min_sum_per_partition) <=> Truthy(args.max_sum_per_partition))

\* C5 as stated: a configuration yielded by get_aggregate_params(options) is
\* never options.aggregate_params itself nor an object yielded at another
\* index, so a write to a yielded configuration leaves the blue-print as the
\* caller built it.
C5_FreshCopies ==
    /\ \A k \in 1..Len(yielded) : yielded[k][1] # BlueprintId
    /\ \A j, k \in 1..Len(yielded) : j # k => yielded[j][1] # yielded[k][1]
    /\ Blueprint \in Blueprints

\* C6: when min/max_sum_per_partition are both supplied and materialize(i)
\* returns for an in-range i, the bound-pair list is built from element i of
\* each: for a row of C columns it is the C pairs (min_c, max_c) in column
\* order, for a scalar it is the single pair (min_i, max_i).
C6_BoundPairs ==
    (Materialized /\ Truthy(mpc.min_sum_per_partition)
                  /\ Truthy(mpc.max_sum_per_partition)) =>
        LET min_i == mpc.min_sum_per_partition.seq[mat.index + 1]
            max_i == mpc.max_sum_per_partition.seq[mat.index + 1]
        IN  IF min_i.isSeq
            THEN /\ Len(mat.min_max_sum) = Len(min_i.row)
                 /\ \A c \in 1..Len(min_i.row) :
                        mat.min_max_sum[c] = <<Scalar(min_i.row[c]), Scalar(max_i.row[c])>>
            ELSE mat.min_max_sum = << <<min_i, max_i>> >>

C6_Witness ==
    /\ Materialized
    /\ mat.index = 1
    /\ Truthy(mpc.min_sum_per_partition)
    /\ mpc.min_sum_per_partition.seq[2].isSeq
    /\ Len(mat.min_max_sum) = 2

\* Attributes of the constructor call that are non-empty sequences.
SetFields(a) == { FieldOrder[k] : k \in { j \in 1..Len(FieldOrder) : Truthy(a[FieldOrder[j]]) } }

\* C7: a construction succeeds only if at least one of the six sequences is
\* non-empty and all non-empty ones have one length N, and then size = N; it
\* fails when all six are empty or None and when two non-empty sequences
\* differ in length.
C7_ConstructionLengths ==
    ctor # "none" =>
        /\ ctor = "ok" =>
              /\ SetFields(args) # {}
              /\ \A f \in SetFields(args) : Len(args[f].seq) = mpc.size
        /\ SetFields(args) = {} => ctor = "ValueError"
        /\ (\E f, g \in SetFields(args) : Len(args[f].seq) # Len(args[g].seq))
              => ctor = "ValueError"

C7_Witness ==
    /\ ctor = "ok"
    /\ mpc.size = 2
    /\ Cardinality(SetFields(args)) >= 2
    /\ \E k \in 1..Len(FieldOrder) :
          ~args[FieldOrder[k]].none /\ args[FieldOrder[k]].seq = <<>>

\* C8 as stated: once the generator of get_aggregate_params(options) has
\* ended, it has yielded exactly n_configurations tuples in index order: the
\* blue-print's values and bound pair (no multi_param_configuration), or at
\* position i the result of
\* multi_param_configuration.get_aggregate_params(blue-print, i).
C8_YieldsAll ==
    gen.state \in {"done", "raised"} =>
        /\ gen.state = "done"
        /\ Len(yielded) = n_configurations(opts, mpc)
        /\ poked = 0 =>
             \A k \in 1..Len(yielded) :
                IF opts.multi
                THEN LET r == Mpc_get_aggregate_params(mpc, Blueprint, k - 1)
                     IN  /\ heap[yielded[k][1]] = r.params
                         /\ yielded[k][2] = r.min_max_sum
                ELSE /\ heap[yielded[k][1]] = Blueprint
                     /\ yielded[k][2] = << <<Blueprint.min_sum_per_partition,
                                             Blueprint.max_sum_per_partition>> >>

\* No min/max_sum_per_partition alternates are in effect.
NoSumAlternates ==
    \/ ~opts.multi
    \/ ~Truthy(mpc.min_sum_per_partition) /\ ~Truthy(mpc.max_sum_per_partition)

\* C9: when no min/max_sum_per_partition alternates are supplied (options
\* without multi_param_configuration, or one whose min/max sequences are
\* empty or None), every tuple the generator yields carries exactly the one
\* pair (blue-print min_sum_per_partition, blue-print max_sum_per_partition),
\* at every index up to n_configurations, whichever other fields are
\* overridden.
C9_FallbackPair ==
    (opts.made /\ NoSumAlternates) =>
        /\ \A k \in 1..Len(yielded) :
              yielded[k][2] = << <<Blueprint.min_sum_per_partition,
                                   Blueprint.max_sum_per_partition>> >>
        /\ gen.state # "raised"
        /\ gen.state = "done" => Len(yielded) = n_configurations(opts, mpc)

C9_Witness ==
    /\ opts.multi
    /\ NoSumAlternates
    /\ Truthy(mpc.max_contributions_per_partition)
    /\ gen.state = "done"
    /\ Len(yielded) = 2

\* Both min/max_sum_per_partition are non-empty and all their elements rows.
MultiColumn(a) ==
    /\ Truthy(a.min_sum_per_partition)
    /\ Truthy(a.max_sum_per_partition)
    /\ all_elements_are_lists(a.min_sum_per_partition.seq)
    /\ all_elements_are_lists(a.max_sum_per_partition.seq)

\* Column counts of all rows of min/max_sum_per_partition.
ColumnCounts(a) ==
    { Len(a.min_sum_per_partition.seq[i].row) : i \in 1..Len(a.min_sum_per_partition.seq) }
    \cup
    { Len(a.max_sum_per_partition.seq[i].row) : i \in 1..Len(a.max_sum_per_partition.seq) }

\* C10: in a constructed object of the multi-column case the rows
\* min_sum[i] and max_sum[i] have the same column count for every i, and the
\* pairing of materialize(i) keeps every column; a construction of the
\* multi-column case in which any two rows differ in column count fails.
C10_EqualColumns ==
    /\ (ctor = "ok" /\ MultiColumn(mpc)) =>
          \A i \in 1..mpc.size :
              Len(mpc.min_sum_per_partition.seq[i].row)
                = Len(mpc.max_sum_per_partition.seq[i].row)
    /\ (Materialized /\ MultiColumn(mpc)) =>
          Len(mat.min_max_sum) = Len(mpc.min_sum_per_partition.seq[mat.index + 1].row)
    /\ (ctor # "none" /\ MultiColumn(args) /\ Cardinality(ColumnCounts(args)) > 1)
          => ctor = "ValueError"

C10_Witness ==
    /\ Materialized
    /\ MultiColumn(mpc)
    /\ mpc.size = 2
    /\ mat.index = 1
    /\ Len(mat.min_max_sum) = 2

====
